---- MODULE Spec2Model ----
(***************************************************************************)
(* tenantfollow.py: acquire an OAuth2 client-credentials token, list all   *)
(* users of the tenant through a paginated GET, and POST a "follow site"   *)
(* request for every user.  The program is sequential; every HTTP call     *)
(* blocks until its response is stored in a local (resp / follow_resp).    *)
(* The remote services are the environment: each response is chosen        *)
(* nondeterministically from a small set.  Every request is answered with  *)
(* a final 2xx, 4xx or 5xx status (requests follows redirects itself); a    *)
(* request that fails without any response, and a value field that is not   *)
(* an array of objects, are outside the model.                              *)
(***************************************************************************)
EXTENDS Integers, Sequences, FiniteSets, TLC

VARIABLES
    pc,            \* position of main() and of the helper it is running
    access_token,  \* main: access_token (line 63)
    headers,       \* main: headers (line 64)
    url,           \* paginated_get: url
    results,       \* paginated_get: results
    users,         \* main: users (line 68)
    idx,           \* main: position of the for loop in users (line 71)
    resp,          \* the running helper's local resp / follow_resp
    exc,           \* the exception that ended the run, if any
    out,           \* lines printed to standard output
    calls,         \* history: every HTTP request sent, in order
    pages          \* history: every response the listing GETs received, in order

vars ==
    <<pc, access_token, headers, url, results, users, idx, resp, exc, out,
      calls, pages>>

----------------------------------------------------------------------------
(* Bounds of the model *)

\* the users the listing server holds in total, over all its pages
MaxUsers == 2
\* the pages the listing server serves in one run (Spec only)
MaxPages == 2

----------------------------------------------------------------------------
(* Values *)

\* Python's None: an absent JSON field, dict.get() without a hit
None == "<None>"

\* f"{GRAPH_BASE_URL}/users"
UsersUrl == "/users"
\* continuation URLs the server may hand out; one of them is the start URL
Urls == {UsersUrl, "/users?skip"}
\* what the "@odata.nextLink" field may hold: absent, an empty string, a URL
NextValues == {None, ""} \cup Urls

Tokens == {"T1", "T2"}

\* user records of the listing: with both fields, without userPrincipalName,
\* without id
UserRecords ==
    { [id |-> "u1", userPrincipalName |-> "a@x.com"],
      [id |-> "u2", userPrincipalName |-> None],
      [id |-> None, userPrincipalName |-> "c@x.com"] }

RECURSIVE SeqsOfLen(_, _)
SeqsOfLen(S, n) ==
    IF n = 0 THEN { <<>> }
    ELSE { Append(s, x) : s \in SeqsOfLen(S, n - 1), x \in S }

SeqsUpTo(S, n) == UNION { SeqsOfLen(S, k) : k \in 0..n }

\* a response body; json = FALSE is a body that does not parse as a JSON object
Body(json, tok, hasValue, value, next, text) ==
    [json |-> json, access_token |-> tok, hasValue |-> hasValue,
     value |-> value, next |-> next, text |-> text]

NotJson == Body(FALSE, None, FALSE, <<>>, None, "")
Response(status, body) == [status |-> status, body |-> body]
NoResp == Response(0, NotJson)
NoExc == [type |-> None, where |-> None]
\* the Authorization header; a request sent without headers carries NoAuth
Bearer(token) == [scheme |-> "Bearer", token |-> token]
NoAuth == [scheme |-> None, token |-> None]
NoHeaders == [Authorization |-> NoAuth, ContentType |-> None]

\* one HTTP request of the history: which helper sent it, to where, and the
\* Authorization header it carried
Request(kind, target, auth) == [kind |-> kind, target |-> target, auth |-> auth]

----------------------------------------------------------------------------
(* The remote services *)

TokenUrl == "/oauth2/v2.0/token"

\* the token endpoint: success or 401, with a body that is not JSON, is JSON
\* without access_token, or is JSON with an access_token
TokenStatuses == {200, 401}
TokenBodies ==
    {NotJson, Body(TRUE, None, FALSE, <<>>, None, "")}
        \cup { Body(TRUE, t, FALSE, <<>>, None, "") : t \in Tokens }
TokenResponses == { Response(s, b) : s \in TokenStatuses, b \in TokenBodies }

\* a JSON error object: no value, no next link
ErrorBody == Body(TRUE, None, FALSE, <<>>, None, "")

\* a listing page with room for at most `room` more users; a page may lack
\* the value field, and its next link may be absent, empty or a URL
PageBodies(room, nexts) ==
    { Body(TRUE, None, TRUE, v, n, "") :
          v \in SeqsUpTo(UserRecords, room), n \in nexts }
        \cup { Body(TRUE, None, FALSE, <<>>, n, "") : n \in nexts }

\* the listing endpoint: a page, a 200 that is not JSON, or a 500.
\* `more` says whether the server still has a further page to link to.
ListResponses(room, more) ==
    { Response(200, b) :
          b \in PageBodies(room, IF more THEN NextValues ELSE {None, ""}) }
        \cup { Response(200, NotJson), Response(500, NotJson), Response(500, ErrorBody) }

\* the follow endpoint: any of these statuses with any of these texts
FollowStatuses == {200, 201, 202, 204, 401}
FollowTexts == {"", "denied"}
FollowResponses ==
    { Response(s, Body(FALSE, None, FALSE, <<>>, None, t)) :
          s \in FollowStatuses, t \in FollowTexts }

----------------------------------------------------------------------------
(* The program's pure steps *)

\* requests.Response.raise_for_status(): HTTPError for a 4xx or 5xx status
RaisesForStatus(status) == status >= 400 /\ status < 600

\* a variant of Headers: the bearer is the configured client secret instead
\* of the token received
Headers_ClientSecret(token) ==
    [Authorization |-> Bearer("YOUR_APPLICATION_SECRET"),
     ContentType |-> "application/json"]

\* line 64: the headers every later request is sent with
Headers(token) ==
    [Authorization |-> Bearer(token), ContentType |-> "application/json"]

\* a variant of LoopContinues: `while url is not None:`
LoopContinues_NotNone(u) == u # None

\* line 36: `while url:` is Python truthiness, false for None and for ""
LoopContinues(u) == u # None /\ u # ""

\* line 40: data.get("value", [])
GetValue(data) == IF data.hasValue THEN data.value ELSE <<>>

\* a variant of Extend: the page's items put in front of the results
Extend_Prepend(rs, items) == items \o rs

\* line 40: results.extend(items)
Extend(rs, items) == rs \o items

\* a variant of NextUrl: data.get("@odata.nextLink", url), the current url
\* kept when the field is absent
NextUrl_KeepCurrent(data) == IF data.next = None THEN url ELSE data.next

\* line 41: data.get("@odata.nextLink")
NextUrl(data) == data.next

\* a variant of FollowSucceeded: every 2xx status counts as success
FollowSucceeded_Any2xx(status) == status >= 200 /\ status < 300

\* line 54: follow_resp.status_code in [200, 204]
FollowSucceeded(status) == status \in {200, 204}

\* lines 54-57: the line follow_site prints
FollowLine(user_id, r) ==
    IF FollowSucceeded(r.status)
    THEN [kind |-> "ok", user |-> user_id, detail |-> "", count |-> 0]
    ELSE [kind |-> "fail", user |-> user_id, detail |-> r.body.text, count |-> 0]

\* a variant of DisplayName: user.get("userPrincipalName"), no fallback
DisplayName_NoFallback(user, user_id) == user.userPrincipalName

\* line 73: user.get("userPrincipalName", user_id)
DisplayName(user, user_id) ==
    IF user.userPrincipalName # None THEN user.userPrincipalName ELSE user_id

\* line 69 and line 74
FoundLine(n) == [kind |-> "found", user |-> None, detail |-> "", count |-> n]
ProcessingLine(name) ==
    [kind |-> "processing", user |-> name, detail |-> "", count |-> 0]

----------------------------------------------------------------------------
(* The program *)

Init ==
    /\ pc = "token_post"
    /\ access_token = None
    /\ headers = NoHeaders
    /\ url = None
    /\ results = <<>>
    /\ users = <<>>
    /\ idx = 0
    /\ resp = NoResp
    /\ exc = NoExc
    /\ out = <<>>
    /\ calls = <<>>
    /\ pages = <<>>

\* an exception nobody catches: the run ends where it is raised
Raise(type, where) ==
    /\ pc' = "raised"
    /\ exc' = [type |-> type, where |-> where]

\* get_access_token, line 27: the POST to the token endpoint, sent without
\* the bearer headers
TokenPost ==
    /\ pc = "token_post"
    /\ \E r \in TokenResponses :
          /\ resp' = r
          /\ calls' = Append(calls, Request("token", TokenUrl, NoAuth))
    /\ pc' = "token_resp"
    /\ UNCHANGED <<access_token, headers, url, results, users, idx, exc, out, pages>>

\* a variant of TokenHandle without raise_for_status: the body of an error
\* response is parsed like that of a success
TokenHandle_NoStatusCheck ==
    /\ pc = "token_resp"
    /\ IF ~resp.body.json
       THEN /\ Raise("JSONDecodeError", "get_access_token")
            /\ UNCHANGED <<access_token, headers, url, results, resp>>
       ELSE IF resp.body.access_token = None
       THEN /\ Raise("KeyError", "get_access_token")
            /\ UNCHANGED <<access_token, headers, url, results, resp>>
       ELSE /\ access_token' = resp.body.access_token
            /\ headers' = Headers(resp.body.access_token)
            /\ url' = UsersUrl
            /\ results' = <<>>
            /\ resp' = NoResp
            /\ pc' = "list_while"
            /\ UNCHANGED exc
    /\ UNCHANGED <<users, idx, out, calls, pages>>

\* get_access_token, lines 28-29, and main, lines 63-68 up to the call of
\* paginated_get: raise_for_status, resp.json()["access_token"], the headers,
\* the start URL and the empty results.  A helper's resp is a local: it is
\* gone when the helper returns, and stays with the exception when it raises.
TokenHandle ==
    /\ pc = "token_resp"
    /\ IF RaisesForStatus(resp.status)
       THEN /\ Raise("HTTPError", "get_access_token")
            /\ UNCHANGED <<access_token, headers, url, results, resp>>
       ELSE IF ~resp.body.json
       THEN /\ Raise("JSONDecodeError", "get_access_token")
            /\ UNCHANGED <<access_token, headers, url, results, resp>>
       ELSE IF resp.body.access_token = None
       THEN /\ Raise("KeyError", "get_access_token")
            /\ UNCHANGED <<access_token, headers, url, results, resp>>
       ELSE /\ access_token' = resp.body.access_token
            /\ headers' = Headers(resp.body.access_token)
            /\ url' = UsersUrl
            /\ results' = <<>>
            /\ resp' = NoResp
            /\ pc' = "list_while"
            /\ UNCHANGED exc
    /\ UNCHANGED <<users, idx, out, calls, pages>>

\* paginated_get, line 36, and on exit line 42 with main, lines 68-69:
\* the loop test; when it fails the results are returned, main binds them
\* to users and prints their number
WhileTest ==
    /\ pc = "list_while"
    /\ IF LoopContinues(url)
       THEN /\ pc' = "list_get"
            /\ UNCHANGED <<users, idx, out, resp>>
       ELSE /\ users' = results
            /\ out' = Append(out, FoundLine(Len(results)))
            /\ idx' = 1
            /\ resp' = NoResp
            /\ pc' = "for"
    /\ UNCHANGED <<access_token, headers, url, results, exc, calls, pages>>

\* paginated_get, line 37: the GET of url with the headers; the server
\* answers with one of `answers`.  `traced` says whether the histories
\* record the exchange.
ListGetFrom(answers, traced) ==
    /\ pc = "list_get"
    /\ \E r \in answers :
          /\ resp' = r
          /\ pages' = IF traced THEN Append(pages, r) ELSE pages
    /\ calls' = IF traced
                 THEN Append(calls, Request("list", url, headers.Authorization))
                 ELSE calls
    /\ pc' = "list_resp"
    /\ UNCHANGED <<access_token, headers, url, results, users, idx, exc, out>>

\* the listing GETs made so far, in order
ListCalls == SelectSeq(calls, LAMBDA c : c.kind = "list")
\* the follow POSTs made so far, in order
FollowCalls == SelectSeq(calls, LAMBDA c : c.kind = "follow")

\* line 37 against a listing of at most MaxUsers users on at most MaxPages pages
ListGet ==
    ListGetFrom(ListResponses(MaxUsers - Len(results),
                              Len(pages) + 1 < MaxPages), TRUE)

\* line 37 against a listing server that may link to a further page forever
ListGetAny ==
    ListGetFrom(ListResponses(MaxUsers - Len(results), TRUE), FALSE)

\* a variant of ListHandle that keeps the prefix: a failed GET ends the loop
\* and the users collected so far are returned
ListHandle_KeepPrefix ==
    /\ pc = "list_resp"
    /\ IF RaisesForStatus(resp.status)
       THEN /\ url' = None
            /\ pc' = "list_while"
            /\ UNCHANGED <<results, exc>>
       ELSE IF ~resp.body.json
       THEN /\ Raise("JSONDecodeError", "paginated_get")
            /\ UNCHANGED <<url, results>>
       ELSE /\ results' = Extend(results, GetValue(resp.body))
            /\ url' = NextUrl(resp.body)
            /\ pc' = "list_while"
            /\ UNCHANGED exc
    /\ UNCHANGED <<access_token, headers, users, idx, resp, out, calls, pages>>

\* a variant of ListHandle that reads data["value"]: KeyError when the page
\* lacks the field
ListHandle_StrictValue ==
    /\ pc = "list_resp"
    /\ IF RaisesForStatus(resp.status)
       THEN /\ Raise("HTTPError", "paginated_get")
            /\ UNCHANGED <<url, results>>
       ELSE IF ~resp.body.json
       THEN /\ Raise("JSONDecodeError", "paginated_get")
            /\ UNCHANGED <<url, results>>
       ELSE IF ~resp.body.hasValue
       THEN /\ Raise("KeyError", "paginated_get")
            /\ UNCHANGED <<url, results>>
       ELSE /\ results' = Extend(results, resp.body.value)
            /\ url' = NextUrl(resp.body)
            /\ pc' = "list_while"
            /\ UNCHANGED exc
    /\ UNCHANGED <<access_token, headers, users, idx, resp, out, calls, pages>>

\* paginated_get, lines 38-41: raise_for_status, resp.json(), extend the
\* results by the page's value, take the next link as the new url
ListHandle ==
    /\ pc = "list_resp"
    /\ IF RaisesForStatus(resp.status)
       THEN /\ Raise("HTTPError", "paginated_get")
            /\ UNCHANGED <<url, results>>
       ELSE IF ~resp.body.json
       THEN /\ Raise("JSONDecodeError", "paginated_get")
            /\ UNCHANGED <<url, results>>
       ELSE /\ results' = Extend(results, GetValue(resp.body))
            /\ url' = NextUrl(resp.body)
            /\ pc' = "list_while"
            /\ UNCHANGED exc
    /\ UNCHANGED <<access_token, headers, users, idx, resp, out, calls, pages>>

\* main, lines 71-74: the next user of the for loop, user["id"], the display
\* name and the progress line; the run is over when the users are exhausted
ForNext ==
    /\ pc = "for"
    /\ IF idx > Len(users)
       THEN /\ pc' = "done"
            /\ UNCHANGED <<exc, out>>
       ELSE IF users[idx].id = None
       THEN /\ Raise("KeyError", "main")
            /\ UNCHANGED out
       ELSE /\ out' = Append(out, ProcessingLine(DisplayName(users[idx], users[idx].id)))
            /\ pc' = "follow_post"
            /\ UNCHANGED exc
    /\ UNCHANGED <<access_token, headers, url, results, users, idx, resp, calls, pages>>

\* follow_site, lines 48-53: the POST for the current user with the headers
FollowPost ==
    /\ pc = "follow_post"
    /\ \E r \in FollowResponses : resp' = r
    /\ calls' = Append(calls,
                    Request("follow", users[idx].id, headers.Authorization))
    /\ pc' = "follow_resp"
    /\ UNCHANGED <<access_token, headers, url, results, users, idx, exc, out, pages>>

\* a variant of FollowHandle that calls raise_for_status on a failed follow
FollowHandle_Raising ==
    /\ pc = "follow_resp"
    /\ out' = Append(out, FollowLine(users[idx].id, resp))
    /\ IF FollowSucceeded(resp.status)
       THEN /\ idx' = idx + 1
            /\ resp' = NoResp
            /\ pc' = "for"
            /\ UNCHANGED exc
       ELSE /\ Raise("HTTPError", "follow_site")
            /\ UNCHANGED <<idx, resp>>
    /\ UNCHANGED <<access_token, headers, url, results, users, calls, pages>>

\* follow_site, lines 54-57: the outcome line; then the for loop moves on
FollowHandle ==
    /\ pc = "follow_resp"
    /\ out' = Append(out, FollowLine(users[idx].id, resp))
    /\ idx' = idx + 1
    /\ resp' = NoResp
    /\ pc' = "for"
    /\ UNCHANGED <<access_token, headers, url, results, users, exc, calls, pages>>

Next ==
    \/ TokenPost
    \/ TokenHandle
    \/ WhileTest
    \/ ListGet
    \/ ListHandle
    \/ ForNext
    \/ FollowPost
    \/ FollowHandle

Spec == Init /\ [][Next]_vars

----------------------------------------------------------------------------
(* paginated_get on its own, against a listing server that is free to link  *)
(* to a further page for ever.  The run starts where main calls             *)
(* paginated_get (line 68), the token acquired; the histories are not       *)
(* recorded, so that a run that never ends is a cycle of states.  The       *)
(* program is sequential and takes its next step whenever it has one, and   *)
(* the server is assumed to answer every GET: weak fairness of every step.  *)

InitLoop ==
    /\ pc = "list_while"
    /\ access_token \in Tokens
    /\ headers = Headers(access_token)
    /\ url = UsersUrl
    /\ results = <<>>
    /\ users = <<>>
    /\ idx = 0
    /\ resp = NoResp
    /\ exc = NoExc
    /\ out = <<>>
    /\ calls = << Request("token", TokenUrl, NoAuth) >>
    /\ pages = <<>>

NextLoop ==
    \/ WhileTest
    \/ ListGetAny
    \/ ListHandle

LoopSpec == InitLoop /\ [][NextLoop]_vars /\ WF_vars(NextLoop)

----------------------------------------------------------------------------
(* Vocabulary of the properties *)

\* the positions inside paginated_get
ListPcs == {"list_while", "list_get", "list_resp"}

\* the lines of a kind printed so far, in order
Lines(kinds) == SelectSeq(out, LAMBDA l : l.kind \in kinds)

\* paginated_get has returned to main, which printed the number of users
Fetched == Len(Lines({"found"})) = 1 /\ pc \notin ListPcs

\* a 2xx status
SuccessStatus(status) == status \in 200..299

\* a listing response that is a page: a success status and a JSON object
IsPage(p) == SuccessStatus(p.status) /\ p.body.json

\* the page carries a next-page link: the field holds a URL
HasNextLink(p) == p.body.next \in Urls

\* the page lacks the value field
LacksValue(p) == IsPage(p) /\ ~p.body.hasValue

\* the listing responses received so far are a chain of pages, each with a
\* value array, the next link on all but the last
ChainOfPages ==
    /\ Len(pages) >= 1
    /\ \A i \in 1..Len(pages) :
          /\ IsPage(pages[i])
          /\ pages[i].body.hasValue
          /\ HasNextLink(pages[i]) <=> i < Len(pages)

RECURSIVE ConcatValues(_)
ConcatValues(ps) ==
    IF Len(ps) = 0 THEN <<>> ELSE ps[1].body.value \o ConcatValues(Tail(ps))

RECURSIVE SumOfSizes(_)
SumOfSizes(ps) ==
    IF Len(ps) = 0 THEN 0 ELSE Len(ps[1].body.value) + SumOfSizes(Tail(ps))

AllHaveId(us) == \A i \in 1..Len(us) : us[i].id # None

----------------------------------------------------------------------------
(* C1 *)

\* C1: when the listing GETs were answered by a chain of N >= 1 successful
\* pages, page i holding k_i items, the next link only on pages 1..N-1,
\* paginated_get does not raise, and what it returns is the concatenation of
\* the pages' value items in page order, of length the sum of the k_i.
C1_Concatenation ==
    ChainOfPages =>
        /\ exc.where # "paginated_get"
        /\ Fetched =>
              /\ users = ConcatValues(pages)
              /\ Len(users) = SumOfSizes(pages)

\* two pages of one item each, the items different
C1_Witness ==
    /\ Fetched
    /\ ChainOfPages
    /\ Len(pages) = 2
    /\ Len(pages[1].body.value) = 1
    /\ Len(pages[2].body.value) = 1
    /\ pages[1].body.value # pages[2].body.value

----------------------------------------------------------------------------
(* C6 *)

\* C6: the first listing GET goes to the start URL and GET i+1 to exactly the
\* next link page i returned; every page but the last received was a page
\* with a next link, so no GET follows a page without one; and when
\* paginated_get has returned, the last page received carried no next link:
\* a chain of N pages costs exactly N GETs.
C6_FollowsNextLinks ==
    /\ Len(ListCalls) = Len(pages)
    /\ \A i \in 1..Len(ListCalls) :
          ListCalls[i].target = IF i = 1 THEN UsersUrl ELSE pages[i - 1].body.next
    /\ \A i \in 1..(Len(pages) - 1) : IsPage(pages[i]) /\ HasNextLink(pages[i])
    /\ Fetched =>
          /\ Len(pages) >= 1
          /\ IsPage(pages[Len(pages)])
          /\ ~HasNextLink(pages[Len(pages)])
    /\ (pc = "list_get" /\ Len(pages) >= 1) =>
          IsPage(pages[Len(pages)]) /\ HasNextLink(pages[Len(pages)])

\* two GETs, the second to a link that is not the start URL
C6_Witness ==
    /\ Fetched
    /\ Len(ListCalls) = 2
    /\ ListCalls[1].target = UsersUrl
    /\ ListCalls[2].target # UsersUrl

----------------------------------------------------------------------------
(* C2 *)

\* C2 as stated: once the listing has succeeded the run never raises, and at
\* its end the follow POSTs are, in order, one per fetched user.
C2_OnePostPerUser ==
    Fetched =>
        /\ exc = NoExc
        /\ pc = "done" =>
              /\ Len(FollowCalls) = Len(users)
              /\ \A i \in 1..Len(users) : FollowCalls[i].target = users[i].id

\* C2, amended: once the listing has succeeded with every fetched record
\* carrying an id, the run never raises and is never stuck before its end,
\* the follow POSTs made so far are those of the first users in listing
\* order, one each, whatever the statuses of the earlier follow responses,
\* and at the end of the run there is one per fetched user.
C2_OnePostPerUserWithId ==
    (Fetched /\ AllHaveId(users)) =>
        /\ exc = NoExc
        /\ pc # "done" => ENABLED Next
        /\ Len(FollowCalls) = (IF pc = "follow_resp" THEN idx ELSE idx - 1)
        /\ Len(FollowCalls) <= Len(users)
        /\ \A i \in 1..Len(FollowCalls) : FollowCalls[i].target = users[i].id
        /\ Len(Lines({"ok", "fail"})) = idx - 1
        /\ pc = "done" => Len(FollowCalls) = Len(users)

\* the run ended with two users followed, the follow of the first failed
C2_Witness ==
    /\ pc = "done"
    /\ Len(users) = 2
    /\ AllHaveId(users)
    /\ Len(FollowCalls) = 2
    /\ Lines({"ok", "fail"})[1].kind = "fail"
    /\ Lines({"ok", "fail"})[2].kind = "ok"

----------------------------------------------------------------------------
(* C3 *)

\* the token response is a failure: a non-success status, or a body without
\* the access_token field
TokenFails(r) ==
    \/ ~SuccessStatus(r.status)
    \/ ~r.body.json
    \/ r.body.access_token = None

----------------------------------------------------------------------------
(* C4 *)

\* a listing GET was answered with a non-success status
ListFailedAt(i) == ~SuccessStatus(pages[i].status)

----------------------------------------------------------------------------
(* C5 *)

\* C5: the line follow_site prints for a response is the success line if and
\* only if the status is 200 or 204, and the failure line otherwise, whatever
\* the body.
C5_SuccessIff200Or204 ==
    [][pc = "follow_resp" =>
          /\ Len(out') = Len(out) + 1
          /\ out'[Len(out')].kind \in {"ok", "fail"}
          /\ out'[Len(out')].kind = "ok" <=> resp.status \in {200, 204}]_vars

\* a success was reported, then a failure whose response had an empty body
C5_Witness ==
    /\ pc = "for"
    /\ idx = 3
    /\ Lines({"ok", "fail"})[1].kind = "ok"
    /\ Lines({"ok", "fail"})[2].kind = "fail"
    /\ Lines({"ok", "fail"})[2].detail = ""

----------------------------------------------------------------------------
(* C7 *)

\* C7: the first request of a run is the token POST and no later request is
\* one; the token is what that response held, it is never replaced, and every
\* listing GET and follow POST carries it as its bearer.
C7_OneTokenForAll ==
    /\ [](/\ pc # "token_post" => Len(calls) >= 1
          /\ Len(calls) >= 1 => calls[1] = Request("token", TokenUrl, NoAuth)
          /\ \A i \in 2..Len(calls) :
                /\ calls[i].kind \in {"list", "follow"}
                /\ calls[i].auth = Bearer(access_token)
                /\ access_token \in Tokens)
    /\ [][/\ (pc = "token_resp" /\ pc' # "raised") =>
                access_token' = resp.body.access_token
          /\ pc # "token_resp" => access_token' = access_token]_vars

\* a follow POST failed and the next one was sent with the same token T2
C7_Witness ==
    /\ access_token = "T2"
    /\ Len(FollowCalls) = 2
    /\ Lines({"ok", "fail"})[1].kind = "fail"
    /\ calls[Len(calls)] = Request("follow", users[2].id, Bearer("T2"))

----------------------------------------------------------------------------
(* C8 *)

\* C8 as stated: a page that lacks the value field is the last listing
\* response of the run, which is handling it or has raised, with no follow
\* POST.
C8_MissingValueAborts ==
    \A i \in 1..Len(pages) :
        LacksValue(pages[i]) =>
            /\ i = Len(pages)
            /\ pc \in {"list_resp", "raised"}
            /\ Len(FollowCalls) = 0

\* C8, amended: a listing response with a success status whose JSON body
\* lacks the value field is taken as an empty page: it raises nothing, adds
\* no item to the results, and the loop goes on with its next link; a
\* success response whose body is not JSON raises and ends the run.
C8_MissingValueIsEmptyPage ==
    [][/\ (pc = "list_resp" /\ LacksValue(resp)) =>
              /\ pc' = "list_while"
              /\ exc' = NoExc
              /\ results' = results
              /\ url' = resp.body.next
       /\ (pc = "list_resp" /\ SuccessStatus(resp.status) /\ ~resp.body.json) =>
              /\ pc' = "raised"
              /\ exc'.where = "paginated_get"]_vars

\* a page without value was received, a later page delivered a user, and
\* that user was followed
C8_Witness ==
    /\ Len(pages) = 2
    /\ LacksValue(pages[1])
    /\ Len(users) >= 1
    /\ Len(FollowCalls) >= 1
    /\ pc = "done"

----------------------------------------------------------------------------
(* C9 *)

EndsPagination(r) == ~IsPage(r) \/ ~HasNextLink(r)

----------------------------------------------------------------------------
(* C10 *)

\* C10: main raises only at a record without id; by then every record before
\* it had an id and was followed, in order, and nothing is sent for the
\* record or after it; and the progress line of a processed record shows its
\* userPrincipalName, or its id when it has none.
C10_MissingIdAbortsThere ==
    /\ exc.where = "main" =>
          /\ pc = "raised"
          /\ exc.type = "KeyError"
          /\ idx \in 1..Len(users)
          /\ users[idx].id = None
          /\ Len(FollowCalls) = idx - 1
          /\ \A j \in 1..(idx - 1) :
                /\ users[j].id # None
                /\ FollowCalls[j].target = users[j].id
          /\ calls[Len(calls)].kind = (IF idx = 1 THEN "list" ELSE "follow")
          /\ ~ENABLED Next
    /\ Len(Lines({"processing"})) <= Len(users)
    /\ \A k \in 1..Len(Lines({"processing"})) :
          /\ users[k].id # None
          /\ Lines({"processing"})[k].user =
                 (IF users[k].userPrincipalName = None
                  THEN users[k].id
                  ELSE users[k].userPrincipalName)

\* the first record had an id and no userPrincipalName and was followed, the
\* second had no id and ended the run
C10_Witness ==
    /\ pc = "raised"
    /\ exc.where = "main"
    /\ idx = 2
    /\ users[1].userPrincipalName = None
    /\ Lines({"processing"})[1].user = users[1].id
    /\ Len(FollowCalls) = 1

====
